---- MODULE Spec2Model ----
(***************************************************************************)
(* Model of the CMQC shim of MQMate: the build-time capability detector    *)
(* (Sources/CMQC/shim.h) and the stub transport (Sources/CMQC/mq_stubs.h). *)
(*                                                                         *)
(* Caller-owned memory is a function from addresses to 32-bit integers.    *)
(* An address is <<owner, object, index>>.  A stub function is modelled by *)
(* the sequence of stores its body performs, in program order; pointer     *)
(* parameters are addresses, value parameters are integers.                *)
(***************************************************************************)
EXTENDS Integers, Sequences, FiniteSets, TLC

VARIABLES installed, included, macros, pc, op, mem, run, pcf, written, cursor

vars == <<installed, included, macros, pc, op, mem, run, pcf, written,
          cursor>>

(***************************************************************************)
(* Bounds of the model.                                                    *)
(***************************************************************************)
MaxVal == 1
BufLen == 2

Vals == 0 .. MaxVal

(***************************************************************************)
(* mq_stubs.h: handle sentinels, completion codes, reason codes.           *)
(***************************************************************************)
MQHC_UNUSABLE_HCONN == -1
MQHO_UNUSABLE_HOBJ == -1

MQCC_OK == 0
MQCC_WARNING == 1
MQCC_FAILED == 2

MQRC_NONE == 0
MQRC_Q_MGR_NOT_AVAILABLE == 2059
MQRC_UNEXPECTED_ERROR == 2195

Handles == {MQHC_UNUSABLE_HCONN} \cup Vals

(***************************************************************************)
(* mq_stubs.h: the declared fields of the structures, in declaration order.*)
(***************************************************************************)
MQCNO == << "StrucId", "Version", "Options", "ClientConnOffset",
            "ClientConnPtr", "ConnTag", "SSLConfigPtr", "SSLConfigOffset",
            "ConnectionId", "SecurityParmsOffset", "SecurityParmsPtr",
            "CCDTUrlPtr", "CCDTUrlOffset", "CCDTUrlLength", "Reserved" >>

MQOD == << "StrucId", "Version", "ObjectType", "ObjectName",
           "ObjectQMgrName", "DynamicQName", "AlternateUserId",
           "RecsPresent", "KnownDestCount", "UnknownDestCount",
           "InvalidDestCount", "ObjectRecOffset", "ResponseRecOffset",
           "ObjectRecPtr", "ResponseRecPtr", "AlternateSecurityId",
           "ResolvedQName", "ResolvedQMgrName", "ObjectString",
           "SelectionString", "ResObjectString", "ResolvedType" >>

MQMD == << "StrucId", "Version", "Report", "MsgType", "Expiry", "Feedback",
           "Encoding", "CodedCharSetId", "Format", "Priority",
           "Persistence", "MsgId", "CorrelId", "BackoutCount", "ReplyToQ",
           "ReplyToQMgr", "UserIdentifier", "AccountingToken",
           "ApplIdentityData", "PutApplType", "PutApplName", "PutDate",
           "PutTime", "ApplOriginData", "GroupId", "MsgSeqNumber", "Offset",
           "MsgFlags", "OriginalLength" >>

MQGMO == << "StrucId", "Version", "Options", "WaitInterval", "Signal1",
            "Signal2", "ResolvedQName", "MatchOptions", "GroupStatus",
            "SegmentStatus", "Segmentation", "Reserved1", "MsgToken",
            "ReturnedLength", "Reserved2", "MsgHandle" >>

MQPMO == << "StrucId", "Version", "Options", "Timeout", "Context",
            "KnownDestCount", "UnknownDestCount", "InvalidDestCount",
            "ResolvedQName", "ResolvedQMgrName", "RecsPresent",
            "PutMsgRecFields", "PutMsgRecOffset", "ResponseRecOffset",
            "PutMsgRecPtr", "ResponseRecPtr", "OriginalMsgHandle",
            "NewMsgHandle", "Action", "PubLevel" >>

\* The address of a caller's variable, and of a field of a caller's structure.
Var(c, name) == <<c, name, 1>>
Elem(c, name, i) == <<c, name, i>>
FieldIndex(struct, f) == CHOOSE i \in 1 .. Len(struct) : struct[i] = f
Field(p, struct, f) == <<p[1], p[2], FieldIndex(struct, f)>>

\* A variable of the library itself, were there one: no caller passes it.
Static == <<0, "static", 1>>

(***************************************************************************)
(* Stores.                                                                 *)
(***************************************************************************)
Store(m, w) == [m EXCEPT ![w[1]] = w[2]]

RECURSIVE StoreAll(_, _)
StoreAll(m, ws) ==
    IF ws = << >> THEN m ELSE StoreAll(Store(m, Head(ws)), Tail(ws))

(***************************************************************************)
(* The stub functions: the stores of each body, in program order.          *)
(***************************************************************************)
\* MQCONNX without the store to *pHconn.
MQCONNX_NoHandle(QMgrName, pConnectOpts, pHconn, pCompCode, pReason) ==
    << <<pCompCode, MQCC_FAILED>>,
       <<pReason, MQRC_Q_MGR_NOT_AVAILABLE>> >>

MQCONNX(QMgrName, pConnectOpts, pHconn, pCompCode, pReason) ==
    << <<pHconn, MQHC_UNUSABLE_HCONN>>,
       <<pCompCode, MQCC_FAILED>>,
       <<pReason, MQRC_Q_MGR_NOT_AVAILABLE>> >>

\* MQDISC reporting the failure the acquiring functions report.
MQDISC_Fails(pHconn, pCompCode, pReason) ==
    << <<pHconn, MQHC_UNUSABLE_HCONN>>,
       <<pCompCode, MQCC_FAILED>>,
       <<pReason, MQRC_Q_MGR_NOT_AVAILABLE>> >>

MQDISC(pHconn, pCompCode, pReason) ==
    << <<pHconn, MQHC_UNUSABLE_HCONN>>,
       <<pCompCode, MQCC_OK>>,
       <<pReason, MQRC_NONE>> >>

MQOPEN(Hconn, pObjDesc, Options, pHobj, pCompCode, pReason) ==
    << <<pHobj, MQHO_UNUSABLE_HOBJ>>,
       <<pCompCode, MQCC_FAILED>>,
       <<pReason, MQRC_Q_MGR_NOT_AVAILABLE>> >>

\* MQCLOSE remembering the connection in a variable of the library.
MQCLOSE_Static(Hconn, pHobj, Options, pCompCode, pReason) ==
    << <<Static, Hconn>>,
       <<pHobj, MQHO_UNUSABLE_HOBJ>>,
       <<pCompCode, MQCC_OK>>,
       <<pReason, MQRC_NONE>> >>

MQCLOSE(Hconn, pHobj, Options, pCompCode, pReason) ==
    << <<pHobj, MQHO_UNUSABLE_HOBJ>>,
       <<pCompCode, MQCC_OK>>,
       <<pReason, MQRC_NONE>> >>

\* MQGET clearing the start of the caller's buffer.
MQGET_ClearsBuffer(Hconn, Hobj, pMsgDesc, pGetMsgOpts, BufferLength, pBuffer, pDataLength, pCompCode, pReason) ==
    << <<pBuffer, 0>>,
       <<pDataLength, 0>>,
       <<pCompCode, MQCC_FAILED>>,
       <<pReason, MQRC_Q_MGR_NOT_AVAILABLE>> >>

MQGET(Hconn, Hobj, pMsgDesc, pGetMsgOpts, BufferLength, pBuffer, pDataLength, pCompCode, pReason) ==
    << <<pDataLength, 0>>,
       <<pCompCode, MQCC_FAILED>>,
       <<pReason, MQRC_Q_MGR_NOT_AVAILABLE>> >>

\* MQPUT clearing the put options it does not know.
MQPUT_ClearsOptions(Hconn, Hobj, pMsgDesc, pPutMsgOpts, BufferLength, pBuffer, pCompCode, pReason) ==
    << <<Field(pPutMsgOpts, MQPMO, "Options"), 0>>,
       <<pCompCode, MQCC_FAILED>>,
       <<pReason, MQRC_Q_MGR_NOT_AVAILABLE>> >>

MQPUT(Hconn, Hobj, pMsgDesc, pPutMsgOpts, BufferLength, pBuffer, pCompCode, pReason) ==
    << <<pCompCode, MQCC_FAILED>>,
       <<pReason, MQRC_Q_MGR_NOT_AVAILABLE>> >>

\* MQINQ zero-filling the integer attributes.
MQINQ_ZeroFills(Hconn, Hobj, SelectorCount, pSelectors, IntAttrCount, pIntAttrs, CharAttrLength, pCharAttrs, pCompCode, pReason) ==
    << <<pIntAttrs, 0>>,
       <<pCompCode, MQCC_FAILED>>,
       <<pReason, MQRC_Q_MGR_NOT_AVAILABLE>> >>

MQINQ(Hconn, Hobj, SelectorCount, pSelectors, IntAttrCount, pIntAttrs, CharAttrLength, pCharAttrs, pCompCode, pReason) ==
    << <<pCompCode, MQCC_FAILED>>,
       <<pReason, MQRC_Q_MGR_NOT_AVAILABLE>> >>

(***************************************************************************)
(* shim.h, preprocessed once in a translation unit.  pc is the line about  *)
(* to be processed; installed is the set of vendor headers that exist.     *)
(***************************************************************************)
VendorHeaders == {"/opt/mqm/inc/cmqc.h", "/opt/mqm/inc/cmqxc.h"}

has_include(h) == h \in installed

Defined(name) == \E d \in macros : d[1] = name
ValueOf(name) == (CHOOSE d \in macros : d[1] = name)[2]

\* shim.h:6-7  #ifndef CMQC_SHIM_H / #define CMQC_SHIM_H
ShimGuard ==
    /\ pc = "shim.h:6"
    /\ ~Defined("CMQC_SHIM_H")
    /\ macros' = macros \cup {<<"CMQC_SHIM_H", 1>>}
    /\ pc' = "shim.h:10"
    /\ UNCHANGED <<installed, included, op, mem, run, pcf, written, cursor>>

\* shim.h:10  #if __has_include("/opt/mqm/inc/cmqc.h") ... #else
ShimDetect ==
    /\ pc = "shim.h:10"
    /\ pc' = IF has_include("/opt/mqm/inc/cmqc.h")
             THEN "shim.h:12" ELSE "shim.h:17"
    /\ UNCHANGED <<installed, included, macros, op, mem, run, pcf, written, cursor>>

\* #include of a header by absolute path: a missing file is a fatal error.
Include(h, next) ==
    IF h \in installed
    THEN /\ included' = included \cup {h}
         /\ pc' = next
    ELSE /\ included' = included
         /\ pc' = "error"

\* shim.h:12  #include "/opt/mqm/inc/cmqc.h"
ShimIncludeCmqc ==
    /\ pc = "shim.h:12"
    /\ Include("/opt/mqm/inc/cmqc.h", "shim.h:13")
    /\ UNCHANGED <<installed, macros, op, mem, run, pcf, written, cursor>>

\* shim.h:13  #include "/opt/mqm/inc/cmqxc.h"
ShimIncludeCmqxc ==
    /\ pc = "shim.h:13"
    /\ Include("/opt/mqm/inc/cmqxc.h", "shim.h:14")
    /\ UNCHANGED <<installed, macros, op, mem, run, pcf, written, cursor>>

\* shim.h:14  #define MQ_CLIENT_AVAILABLE 1
ShimDefineAvailable ==
    /\ pc = "shim.h:14"
    /\ macros' = macros \cup {<<"MQ_CLIENT_AVAILABLE", 1>>}
    /\ pc' = "shim.h:20"
    /\ UNCHANGED <<installed, included, op, mem, run, pcf, written, cursor>>

\* shim.h:17  #include "mq_stubs.h" (a file of the package itself)
ShimIncludeStubs ==
    /\ pc = "shim.h:17"
    /\ included' = included \cup {"mq_stubs.h"}
    /\ macros' = macros \cup {<<"MQ_STUBS_H", 1>>}
    /\ pc' = "shim.h:18"
    /\ UNCHANGED <<installed, op, mem, run, pcf, written, cursor>>

\* shim.h:18  #define MQ_CLIENT_AVAILABLE 0
ShimDefineUnavailable ==
    /\ pc = "shim.h:18"
    /\ macros' = macros \cup {<<"MQ_CLIENT_AVAILABLE", 0>>}
    /\ pc' = "shim.h:20"
    /\ UNCHANGED <<installed, included, op, mem, run, pcf, written, cursor>>

\* The stub functions are the ones the program runs when the build bound
\* the stub declarations.
StubsBound == "mq_stubs.h" \in included

\* shim.h:20  #endif; a program built against the stub declarations starts.
ShimEnd ==
    /\ pc = "shim.h:20"
    /\ StubsBound
    /\ pc' = "idle"
    /\ UNCHANGED <<installed, included, macros, op, mem, run, pcf, written, cursor>>

(***************************************************************************)
(* The calling program.  Its handle and code variables live as long as the *)
(* program; the structures and buffers it passes by reference are          *)
(* allocated and populated for one call and inspected when it returns.     *)
(***************************************************************************)
Self == "main"

Ops == {"MQCONNX", "MQDISC", "MQOPEN", "MQCLOSE", "MQGET", "MQPUT", "MQINQ"}

\* The variables a caller keeps across calls.
Globals(c) ==
    {Var(c, "Hconn"), Var(c, "Hobj"), Var(c, "CompCode"), Var(c, "Reason"),
     Var(c, "Queue")}

OdFields == {"ObjectName", "ResolvedQName", "ResolvedQMgrName",
             "ResObjectString", "ResolvedType"}
OdResolved == {"ResolvedQName", "ResolvedQMgrName", "ResObjectString",
               "ResolvedType"}

BufferOf(c) == {Elem(c, "Buffer", i) : i \in 1 .. BufLen}

\* The memory a caller passes by reference to each function, besides the
\* handle and code variables.
Frame(c, o) ==
    CASE o = "MQCONNX" ->
           {Var(c, "QMgrName"), Field(Var(c, "ConnectOpts"), MQCNO, "Options")}
      [] o = "MQOPEN" ->
           {Field(Var(c, "ObjDesc"), MQOD, f) : f \in OdFields}
      [] o = "MQGET" ->
           {Field(Var(c, "MsgDesc"), MQMD, "MsgId"),
            Field(Var(c, "GetMsgOpts"), MQGMO, "Options"),
            Field(Var(c, "GetMsgOpts"), MQGMO, "WaitInterval"),
            Var(c, "DataLength")} \cup BufferOf(c)
      [] o = "MQPUT" ->
           {Field(Var(c, "MsgDesc"), MQMD, "MsgId"),
            Field(Var(c, "PutMsgOpts"), MQPMO, "Options")} \cup BufferOf(c)
      [] o = "MQINQ" ->
           {Var(c, "Selectors"), Var(c, "IntAttrs"), Var(c, "CharAttrs")}
      [] OTHER -> {}

\* The caller populates the arguments of its next call.
Prepare ==
    /\ pc = "idle"
    /\ \E o \in Ops : \E f \in [Frame(Self, o) -> Vals] :
         /\ op' = o
         /\ mem' = [a \in Globals(Self) |-> mem[a]] @@ f
    /\ pc' = "call"
    /\ UNCHANGED <<installed, included, macros, run, pcf, written, cursor>>

\* The caller has inspected the results; the arguments go out of scope.
Return ==
    /\ pc = "ret"
    /\ mem' = [a \in Globals(Self) |-> mem[a]]
    /\ pc' = "idle"
    /\ UNCHANGED <<installed, included, macros, op, run, pcf, written, cursor>>

\* The values a caller passes for a parameter taken by value (open and close
\* options, buffer capacity, selector and attribute counts).
ByValue == 0 .. BufLen

\* The call caller c makes of function o: pointers to its own variables,
\* structures and buffers, its handle variables' values where a handle is
\* taken by value, and v for the other by-value parameters.
Invoke(c, o, m, v) ==
    CASE o = "MQCONNX" ->
           MQCONNX(Var(c, "QMgrName"), Var(c, "ConnectOpts"),
                   Var(c, "Hconn"), Var(c, "CompCode"), Var(c, "Reason"))
      [] o = "MQDISC" ->
           MQDISC(Var(c, "Hconn"), Var(c, "CompCode"), Var(c, "Reason"))
      [] o = "MQOPEN" ->
           MQOPEN(m[Var(c, "Hconn")], Var(c, "ObjDesc"), v,
                  Var(c, "Hobj"), Var(c, "CompCode"), Var(c, "Reason"))
      [] o = "MQCLOSE" ->
           MQCLOSE(m[Var(c, "Hconn")], Var(c, "Hobj"), v,
                   Var(c, "CompCode"), Var(c, "Reason"))
      [] o = "MQGET" ->
           MQGET(m[Var(c, "Hconn")], m[Var(c, "Hobj")], Var(c, "MsgDesc"),
                 Var(c, "GetMsgOpts"), v, Elem(c, "Buffer", 1),
                 Var(c, "DataLength"), Var(c, "CompCode"), Var(c, "Reason"))
      [] o = "MQPUT" ->
           MQPUT(m[Var(c, "Hconn")], m[Var(c, "Hobj")], Var(c, "MsgDesc"),
                 Var(c, "PutMsgOpts"), v, Elem(c, "Buffer", 1),
                 Var(c, "CompCode"), Var(c, "Reason"))
      [] o = "MQINQ" ->
           MQINQ(m[Var(c, "Hconn")], m[Var(c, "Hobj")], v,
                 Var(c, "Selectors"), v, Var(c, "IntAttrs"), v,
                 Var(c, "CharAttrs"), Var(c, "CompCode"), Var(c, "Reason"))

\* A call of a stub function performs all the stores of its body and returns.
Execute(o) ==
    /\ pc = "call"
    /\ op = o
    /\ \E v \in ByValue : mem' = StoreAll(mem, Invoke(Self, o, mem, v))
    /\ pc' = "ret"
    /\ UNCHANGED <<installed, included, macros, run, pcf, written, cursor>>

CallMQCONNX == Execute("MQCONNX") /\ op' = "MQCONNX"

CallMQDISC == Execute("MQDISC") /\ op' = "MQDISC"

CallMQOPEN == Execute("MQOPEN") /\ op' = "MQOPEN"

CallMQCLOSE == Execute("MQCLOSE") /\ op' = "MQCLOSE"

CallMQGET == Execute("MQGET") /\ op' = "MQGET"

CallMQPUT == Execute("MQPUT") /\ op' = "MQPUT"

CallMQINQ == Execute("MQINQ") /\ op' = "MQINQ"

Init ==
    /\ installed \in SUBSET VendorHeaders
    /\ included = {}
    /\ macros = {}
    /\ pc = "shim.h:6"
    /\ op = "none"
    /\ run = << >>
    /\ pcf = << >>
    /\ written = << >>
    /\ cursor = 0
    /\ \E h \in Handles, o \in Handles,
          cc \in {MQCC_OK, MQCC_WARNING, MQCC_FAILED},
          rc \in {MQRC_NONE, MQRC_UNEXPECTED_ERROR} :
         mem = (Var(Self, "Hconn") :> h) @@ (Var(Self, "Hobj") :> o)
               @@ (Var(Self, "CompCode") :> cc) @@ (Var(Self, "Reason") :> rc)
               @@ (Var(Self, "Queue") :> 0)

Next ==
    \/ ShimGuard
    \/ ShimDetect
    \/ ShimIncludeCmqc
    \/ ShimIncludeCmqxc
    \/ ShimDefineAvailable
    \/ ShimIncludeStubs
    \/ ShimDefineUnavailable
    \/ ShimEnd
    \/ Prepare
    \/ CallMQCONNX
    \/ CallMQDISC
    \/ CallMQOPEN
    \/ CallMQCLOSE
    \/ CallMQGET
    \/ CallMQPUT
    \/ CallMQINQ
    \/ Return

Spec == Init /\ [][Next]_vars

(***************************************************************************)
(* Concurrent callers of a program built against the stubs.  Each caller   *)
(* makes one call on its own variables; a step is one store of the body of *)
(* the function it is in, so the stores of different callers interleave in *)
(* every order.  run[c] is the function caller c is in and the number of   *)
(* its stores already performed.                                           *)
(***************************************************************************)
NCallers == 2

Callers == 1 .. NCallers

\* What caller c's variables hold before its call.
Fresh(c) ==
    [a \in Globals(c) |->
        IF a \in {Var(c, "Hconn"), Var(c, "Hobj")} THEN c
        ELSE IF a = Var(c, "CompCode") THEN MQCC_WARNING
        ELSE IF a = Var(c, "Reason") THEN MQRC_UNEXPECTED_ERROR
        ELSE 0]

Populated(c, o) == Fresh(c) @@ [a \in Frame(c, o) |-> c % (MaxVal + 1)]

Own(c, o) == Globals(c) \cup Frame(c, o)

InitThreads ==
    /\ installed = {}
    /\ included = {"mq_stubs.h"}
    /\ macros = {<<"CMQC_SHIM_H", 1>>, <<"MQ_STUBS_H", 1>>,
                 <<"MQ_CLIENT_AVAILABLE", 0>>}
    /\ pc = "threads"
    /\ op = "none"
    /\ run = [c \in Callers |-> [op |-> "none", n |-> 0]]
    /\ pcf = << >>
    /\ written = << >>
    /\ cursor = 0
    /\ mem = [a \in {Static} \cup UNION {Globals(c) : c \in Callers} |->
                 IF a = Static THEN 0 ELSE Fresh(a[1])[a]]

\* Caller c populates its arguments and enters function o.
Enter(c) ==
    /\ pc = "threads"
    /\ run[c].op = "none"
    /\ \E o \in Ops :
         /\ run' = [run EXCEPT ![c] = [op |-> o, n |-> 0]]
         /\ mem' = [a \in Frame(c, o) |-> Populated(c, o)[a]] @@ mem
    /\ UNCHANGED <<installed, included, macros, pc, op, pcf, written, cursor>>

\* Caller c performs the next store of the function it is in.
Step(c) ==
    /\ pc = "threads"
    /\ run[c].op # "none"
    /\ \E v \in ByValue :
         LET stores == Invoke(c, run[c].op, mem, v) IN
         /\ run[c].n < Len(stores)
         /\ mem' = Store(mem, stores[run[c].n + 1])
         /\ run' = [run EXCEPT ![c].n = @ + 1]
    /\ UNCHANGED <<installed, included, macros, pc, op, pcf, written, cursor>>

NextThreads == \E c \in Callers : Enter(c) \/ Step(c)

SpecThreads == InitThreads /\ [][NextThreads]_vars

(***************************************************************************)
(* mq_stubs.h: reason codes by name, PCF constants, PCF structures.        *)
(***************************************************************************)
MQRC_NO_MSG_AVAILABLE == 2033
MQRC_TRUNCATED_MSG_ACCEPTED == 2079
MQRC_TRUNCATED_MSG_FAILED == 2080
MQRC_NOT_AUTHORIZED == 2035
MQRC_CONNECTION_BROKEN == 2009
MQRC_HOST_NOT_AVAILABLE == 2538
MQRC_CHANNEL_NOT_AVAILABLE == 2537
MQRC_UNKNOWN_CHANNEL_NAME == 2540
MQRC_UNKNOWN_Q_MGR == 2058
MQRC_Q_FULL == 2053
MQRC_PUT_INHIBITED == 2051
MQRC_GET_INHIBITED == 2016
MQRC_OBJECT_IN_USE == 2042
MQRC_OBJECT_CHANGED == 2041
MQRC_OBJECT_ALREADY_EXISTS == 2041

MQRC ==
    [MQRC_NONE |-> MQRC_NONE,
     MQRC_NO_MSG_AVAILABLE |-> MQRC_NO_MSG_AVAILABLE,
     MQRC_TRUNCATED_MSG_ACCEPTED |-> MQRC_TRUNCATED_MSG_ACCEPTED,
     MQRC_TRUNCATED_MSG_FAILED |-> MQRC_TRUNCATED_MSG_FAILED,
     MQRC_NOT_AUTHORIZED |-> MQRC_NOT_AUTHORIZED,
     MQRC_Q_MGR_NOT_AVAILABLE |-> MQRC_Q_MGR_NOT_AVAILABLE,
     MQRC_CONNECTION_BROKEN |-> MQRC_CONNECTION_BROKEN,
     MQRC_HOST_NOT_AVAILABLE |-> MQRC_HOST_NOT_AVAILABLE,
     MQRC_CHANNEL_NOT_AVAILABLE |-> MQRC_CHANNEL_NOT_AVAILABLE,
     MQRC_UNKNOWN_CHANNEL_NAME |-> MQRC_UNKNOWN_CHANNEL_NAME,
     MQRC_UNKNOWN_Q_MGR |-> MQRC_UNKNOWN_Q_MGR,
     MQRC_Q_FULL |-> MQRC_Q_FULL,
     MQRC_PUT_INHIBITED |-> MQRC_PUT_INHIBITED,
     MQRC_GET_INHIBITED |-> MQRC_GET_INHIBITED,
     MQRC_OBJECT_IN_USE |-> MQRC_OBJECT_IN_USE,
     MQRC_OBJECT_CHANGED |-> MQRC_OBJECT_CHANGED,
     MQRC_UNEXPECTED_ERROR |-> MQRC_UNEXPECTED_ERROR,
     MQRC_OBJECT_ALREADY_EXISTS |-> MQRC_OBJECT_ALREADY_EXISTS]

ReasonNames == DOMAIN MQRC

MQIA_CURRENT_Q_DEPTH == 3
MQCA_Q_NAME == 2016
MQCCSI_DEFAULT == 0

MQCFT_RESPONSE == 2
MQCFT_INTEGER == 3
MQCFT_STRING == 4

MQCFH_VERSION_1 == 1
MQCFH_STRUC_LENGTH == 36
MQCFIN_STRUC_LENGTH == 16
MQCFST_STRUC_LENGTH_FIXED == 20

MQCFC_LAST == 1
MQCMD_INQUIRE_Q == 13

\* MQLONG declared as a 64-bit long.
Sizeof_Long64(type) == IF type = "MQLONG" THEN 8 ELSE 1

\* typedef int32_t MQLONG; typedef char MQCHAR;
Sizeof(type) == IF type = "MQLONG" THEN 4 ELSE 1

\* Declared fields: <<name, type, array length (1 for a scalar)>>.
MQCFH == << <<"Type", "MQLONG", 1>>, <<"StrucLength", "MQLONG", 1>>,
            <<"Version", "MQLONG", 1>>, <<"Command", "MQLONG", 1>>,
            <<"MsgSeqNumber", "MQLONG", 1>>, <<"Control", "MQLONG", 1>>,
            <<"CompCode", "MQLONG", 1>>, <<"Reason", "MQLONG", 1>>,
            <<"ParameterCount", "MQLONG", 1>> >>

MQCFIN == << <<"Type", "MQLONG", 1>>, <<"StrucLength", "MQLONG", 1>>,
             <<"Parameter", "MQLONG", 1>>, <<"Value", "MQLONG", 1>> >>

MQCFST == << <<"Type", "MQLONG", 1>>, <<"StrucLength", "MQLONG", 1>>,
             <<"Parameter", "MQLONG", 1>>, <<"CodedCharSetId", "MQLONG", 1>>,
             <<"StringLength", "MQLONG", 1>>, <<"String", "MQCHAR", 1>> >>

\* C layout: a field starts at the next multiple of its type's size.
AlignUp(n, a) == ((n + a - 1) \div a) * a

RECURSIVE EndOf(_, _)
EndOf(struct, k) ==
    IF k = 0 THEN 0
    ELSE AlignUp(EndOf(struct, k - 1), Sizeof(struct[k][2]))
         + Sizeof(struct[k][2]) * struct[k][3]

IndexOf(struct, f) == CHOOSE i \in 1 .. Len(struct) : struct[i][1] = f

Offsetof(struct, f) ==
    AlignUp(EndOf(struct, IndexOf(struct, f) - 1),
            Sizeof(struct[IndexOf(struct, f)][2]))

\* An MQLONG in memory (least significant byte first), and read back.
RECURSIVE Bytes(_, _)
Bytes(v, n) == IF n = 0 THEN << >> ELSE <<v % 256>> \o Bytes(v \div 256, n - 1)

LongBytes(v) == Bytes(v, Sizeof("MQLONG"))

RECURSIVE ReadBytes(_, _, _)
ReadBytes(b, off, n) ==
    IF n = 0 THEN 0 ELSE b[off + 1] + 256 * ReadBytes(b, off + 1, n - 1)

ReadLong(b, off) == ReadBytes(b, off, Sizeof("MQLONG"))

\* The bytes of a record: its declared fields in order, val[f] the value of
\* field f (an integer for an MQLONG, the characters for an MQCHAR array).
RECURSIVE Serialize(_, _, _)
Serialize(struct, val, k) ==
    IF k = 0 THEN << >>
    ELSE LET before == Serialize(struct, val, k - 1)
             fld == struct[k]
             pad == [i \in 1 .. (AlignUp(Len(before), Sizeof(fld[2]))
                                 - Len(before)) |-> 0]
         IN before \o pad \o
            (IF fld[2] = "MQLONG" THEN LongBytes(val[fld[1]])
             ELSE val[fld[1]])

(***************************************************************************)
(* An administrative message: a header and its parameters, one record      *)
(* after the other in a buffer; a consumer walks it with a cursor.         *)
(* written lists the records put, each with the offset it starts at and    *)
(* the number of bytes it occupies.                                        *)
(***************************************************************************)
MaxParams == 2
MaxStrLen == 1

PutRecord(kind, bytes, reason) ==
    /\ pcf' = pcf \o bytes
    /\ written' = Append(written, [kind |-> kind, at |-> Len(pcf),
                                   len |-> Len(bytes), reason |-> reason])

InitPCF ==
    /\ installed = {}
    /\ included = {"mq_stubs.h"}
    /\ macros = {<<"CMQC_SHIM_H", 1>>, <<"MQ_STUBS_H", 1>>,
                 <<"MQ_CLIENT_AVAILABLE", 0>>}
    /\ pc = "pcf"
    /\ op = "none"
    /\ run = << >>
    /\ mem = << >>
    /\ pcf = << >>
    /\ written = << >>
    /\ cursor = 0

\* A response header carrying the named reason.
PutHeader ==
    /\ pc = "pcf"
    /\ written = << >>
    /\ \E r \in ReasonNames, count \in 0 .. MaxParams :
         PutRecord("MQCFH",
                  Serialize(MQCFH,
                          [Type |-> MQCFT_RESPONSE,
                           StrucLength |-> MQCFH_STRUC_LENGTH,
                           Version |-> MQCFH_VERSION_1,
                           Command |-> MQCMD_INQUIRE_Q,
                           MsgSeqNumber |-> 1,
                           Control |-> MQCFC_LAST,
                           CompCode |-> IF r = "MQRC_NONE" THEN MQCC_OK
                                        ELSE MQCC_FAILED,
                           Reason |-> MQRC[r],
                           ParameterCount |-> count],
                          Len(MQCFH)),
                r)
    /\ UNCHANGED <<installed, included, macros, pc, op, mem, run, cursor>>

ParameterCount == ReadLong(pcf, Offsetof(MQCFH, "ParameterCount"))

\* An integer parameter.
PutInteger ==
    /\ pc = "pcf"
    /\ written # << >>
    /\ Len(written) - 1 < ParameterCount
    /\ \E v \in Vals :
         PutRecord("MQCFIN",
                  Serialize(MQCFIN,
                          [Type |-> MQCFT_INTEGER,
                           StrucLength |-> MQCFIN_STRUC_LENGTH,
                           Parameter |-> MQIA_CURRENT_Q_DEPTH,
                           Value |-> v],
                          Len(MQCFIN)),
                "none")
    /\ UNCHANGED <<installed, included, macros, pc, op, mem, run, cursor>>

\* A string parameter: the string follows the fixed part, padded to a
\* multiple of four bytes.
PutString ==
    /\ pc = "pcf"
    /\ written # << >>
    /\ Len(written) - 1 < ParameterCount
    /\ \E n \in 0 .. MaxStrLen :
         LET padded == AlignUp(n, Sizeof("MQLONG")) IN
         PutRecord("MQCFST",
                  Serialize(MQCFST,
                          [Type |-> MQCFT_STRING,
                           StrucLength |-> MQCFST_STRUC_LENGTH_FIXED + padded,
                           Parameter |-> MQCA_Q_NAME,
                           CodedCharSetId |-> MQCCSI_DEFAULT,
                           StringLength |-> n,
                           String |-> [i \in 1 .. padded |->
                                          IF i <= n THEN 81 ELSE 32]],
                          Len(MQCFST)),
                "none")
    /\ UNCHANGED <<installed, included, macros, pc, op, mem, run, cursor>>

\* The consumer skips the record under the cursor: every record has its
\* StrucLength at the same offset.
Advance ==
    /\ pc = "pcf"
    /\ cursor + Offsetof(MQCFH, "StrucLength") + Sizeof("MQLONG") <= Len(pcf)
    /\ cursor' = cursor + ReadLong(pcf, cursor + Offsetof(MQCFH, "StrucLength"))
    /\ UNCHANGED <<installed, included, macros, pc, op, mem, run, pcf,
                   written>>

NextPCF == PutHeader \/ PutInteger \/ PutString \/ Advance

SpecPCF == InitPCF /\ [][NextPCF]_vars

(***************************************************************************)
(* Properties.                                                             *)
(***************************************************************************)
Hconn == Var(Self, "Hconn")
Hobj == Var(Self, "Hobj")
CompCode == Var(Self, "CompCode")
Reason == Var(Self, "Reason")
Queue == Var(Self, "Queue")
ObjDesc(f) == Field(Var(Self, "ObjDesc"), MQOD, f)

Entering(o) == pc = "call" /\ op = o
Left(o) == pc = "ret" /\ op = o

\* C1: when Connect (MQCONNX) or Open (MQOPEN) returns, whatever its inputs
\* and whatever the handle variable held, the handle it returns through is
\* -1, the completion code is 2 (FAILED) and the reason code is 2059
\* (Q_MGR_NOT_AVAILABLE).
C1_AcquireFails ==
    /\ Left("MQCONNX") =>
         mem[Hconn] = -1 /\ mem[CompCode] = 2 /\ mem[Reason] = 2059
    /\ Left("MQOPEN") =>
         mem[Hobj] = -1 /\ mem[CompCode] = 2 /\ mem[Reason] = 2059

\* Open has returned to a caller whose connection handle is not the
\* sentinel and whose descriptor names an object.
C1_Witness ==
    /\ Left("MQOPEN")
    /\ mem[Hconn] # -1
    /\ mem[ObjDesc("ObjectName")] # 0

\* C2: after any sequence of stub calls, when Disconnect (MQDISC) or Close
\* (MQCLOSE) returns, whatever the handle held before (a never-connected
\* value, any integer, or the -1 an earlier release left), the completion
\* code is 0 (OK), the reason code is 0 (NONE) and the handle is -1.
C2_ReleaseSucceeds ==
    /\ Left("MQDISC") =>
         mem[Hconn] = -1 /\ mem[CompCode] = 0 /\ mem[Reason] = 0
    /\ Left("MQCLOSE") =>
         mem[Hobj] = -1 /\ mem[CompCode] = 0 /\ mem[Reason] = 0

\* Close has returned to a caller both of whose handles are already the
\* sentinel.
C2_Witness == Left("MQCLOSE") /\ mem[Hconn] = -1 /\ mem[Hobj] = -1

\* C3: a Get (MQGET) call, whatever the handles, buffer capacity, get
\* options and wait interval, returns in the one step it takes, with data
\* length 0, completion code FAILED and reason Q_MGR_NOT_AVAILABLE, and with
\* every byte of the buffer as it was before the call.
C3_GetLeavesBuffer ==
    [][Entering("MQGET") =>
         /\ pc' = "ret"
         /\ mem'[Var(Self, "DataLength")] = 0
         /\ mem'[CompCode] = 2
         /\ mem'[Reason] = 2059
         /\ \A a \in BufferOf(Self) : mem'[a] = mem[a]]_vars

\* Get has returned on a buffer holding no zero byte, with a wait interval
\* asked for.
C3_Witness ==
    /\ Left("MQGET")
    /\ \A a \in BufferOf(Self) : mem[a] # 0
    /\ mem[Field(Var(Self, "GetMsgOpts"), MQGMO, "WaitInterval")] # 0
    /\ mem[Var(Self, "DataLength")] = 0

\* C4: a Put (MQPUT) call sets completion code FAILED and reason
\* Q_MGR_NOT_AVAILABLE and changes nothing else the caller has: the message
\* buffer, the message descriptor, the put options, the handles and the
\* queue surrogate are as before, and the queue surrogate holds no record.
C4_PutChangesNothing ==
    [][Entering("MQPUT") =>
         /\ mem'[CompCode] = 2
         /\ mem'[Reason] = 2059
         /\ DOMAIN mem' = DOMAIN mem
         /\ \A a \in DOMAIN mem \ {CompCode, Reason} : mem'[a] = mem[a]
         /\ mem'[Queue] = 0]_vars

\* Put has returned with option bits set and a buffer holding no zero byte.
C4_Witness ==
    /\ Left("MQPUT")
    /\ mem[Field(Var(Self, "PutMsgOpts"), MQPMO, "Options")] = MaxVal
    /\ \A a \in BufferOf(Self) : mem[a] # 0
    /\ mem[Queue] = 0

\* C5: an Inquire (MQINQ) call, whatever the selectors and counts, sets
\* completion code FAILED and reason Q_MGR_NOT_AVAILABLE and leaves the
\* integer-attribute array and the character-attribute buffer holding what
\* they held before the call.
C5_InquireLeavesAttrs ==
    [][Entering("MQINQ") =>
         /\ mem'[CompCode] = 2
         /\ mem'[Reason] = 2059
         /\ mem'[Var(Self, "IntAttrs")] = mem[Var(Self, "IntAttrs")]
         /\ mem'[Var(Self, "CharAttrs")] = mem[Var(Self, "CharAttrs")]]_vars

\* Inquire has returned with both attribute outputs still non-zero.
C5_Witness ==
    /\ Left("MQINQ")
    /\ mem[Var(Self, "IntAttrs")] # 0
    /\ mem[Var(Self, "CharAttrs")] # 0
    /\ mem[Var(Self, "Selectors")] # 0

\* C6: an Open (MQOPEN) call on a descriptor of any contents leaves the
\* resolved output fields (ResolvedQName, ResolvedQMgrName, ResObjectString,
\* ResolvedType) zero and the input name field as the caller set it.
C6_ResolvedFieldsZero ==
    [][Entering("MQOPEN") =>
         /\ \A f \in OdResolved : mem'[ObjDesc(f)] = 0
         /\ mem'[ObjDesc("ObjectName")] = mem[ObjDesc("ObjectName")]]_vars

\* C7: the detector fails closed.  Preprocessing never ends in an error;
\* when it has ended, exactly one declaration set is bound (the vendor's two
\* headers, or the stubs); and unless both vendor headers are installed it is
\* the stubs, with MQ_CLIENT_AVAILABLE defined as 0.
PreprocessingEnded == pc \notin {"shim.h:6", "shim.h:10", "shim.h:12",
                                 "shim.h:13", "shim.h:14", "shim.h:17",
                                 "shim.h:18"}

C7_FailsClosed ==
    /\ pc # "error"
    /\ PreprocessingEnded =>
         /\ included = VendorHeaders \/ included = {"mq_stubs.h"}
         /\ ~(VendorHeaders \subseteq installed) =>
              /\ included = {"mq_stubs.h"}
              /\ Defined("MQ_CLIENT_AVAILABLE")
              /\ ValueOf("MQ_CLIENT_AVAILABLE") = 0

\* C8: with any number of callers inside stub functions at once, each on
\* its own variables, whatever the order of their stores: the variables of
\* a caller that has not called are as it left them, those of a caller
\* inside or back from a call hold exactly what the stores it has performed
\* so far would leave were it running alone, and nothing that is not a
\* caller's is written.
C8_CallersIsolated ==
    /\ mem[Static] = 0
    /\ DOMAIN mem = {Static} \cup UNION {Own(c, run[c].op) : c \in Callers}
    /\ \A c \in Callers :
         LET o == run[c].op
             alone == IF o = "none" THEN Fresh(c)
                      ELSE StoreAll(Populated(c, o),
                                    SubSeq(Invoke(c, o, Populated(c, o), 0),
                                           1, run[c].n))
         IN \A a \in Own(c, o) : mem[a] = alone[a]

\* Two callers are inside different functions at once, one store done by
\* the first and two by the second.
C8_Witness ==
    /\ run[1].op = "MQGET" /\ run[1].n = 1
    /\ run[2].op = "MQDISC" /\ run[2].n = 2
    /\ mem[Var(1, "DataLength")] = 0
    /\ mem[Var(2, "CompCode")] = 0

\* C9: every record in the buffer occupies exactly as many bytes as its
\* StrucLength field says: 36 for an MQCFH (nine 4-byte fields), 16 for an
\* MQCFIN (four), 20 plus the padded string for an MQCFST (five fixed fields
\* before String); so the cursor, advanced by StrucLength, is always at the
\* start of a record or at the end of the buffer.
C9_StrucLengthIsByteLength ==
    /\ \A i \in DOMAIN written :
         LET r == written[i] IN
         /\ r.kind = "MQCFH" => r.len = 36 /\ Len(MQCFH) = 9
         /\ r.kind = "MQCFIN" => r.len = 16 /\ Len(MQCFIN) = 4
         /\ ReadLong(pcf, r.at + 4) = r.len
         /\ r.kind = "MQCFST" =>
              /\ r.len = 20 + 4 * ((ReadLong(pcf, r.at + 16) + 3) \div 4)
              /\ IndexOf(MQCFST, "String") = 6
         /\ i < Len(written) => written[i + 1].at = r.at + r.len
    /\ cursor \in {written[i].at : i \in DOMAIN written} \cup {Len(pcf)}

\* The cursor has skipped a header and a string parameter and stands on the
\* integer parameter after them.
C9_Witness ==
    /\ Len(written) = 3
    /\ written[2].kind = "MQCFST" /\ written[2].len > 20
    /\ written[3].kind = "MQCFIN"
    /\ cursor = written[3].at

\* C10: the reason a response header carries names exactly one reason: no
\* two MQRC_ names have the same value, so the consumer that reads the value
\* back finds the one name the producer put; and only MQRC_NONE comes with
\* completion code OK.
C10_ReasonsDistinct ==
    \A i \in DOMAIN written :
        written[i].kind = "MQCFH" =>
            LET at == written[i].at
                v == ReadLong(pcf, at + Offsetof(MQCFH, "Reason"))
                cc == ReadLong(pcf, at + Offsetof(MQCFH, "CompCode"))
            IN /\ \A n \in ReasonNames : MQRC[n] = v => n = written[i].reason
               /\ cc = 0 => v = 0

====
